---- MODULE Spec2Model ----
(***************************************************************************)
(* Model of the scraperApp front end: the pagination window computation    *)
(* and the results composer of resultsBuilder.js (src/unnamed/part_000),   *)
(* the card builder (src/unnamed/part_001) and the page controller of      *)
(* src/src/main.js with the fetch wrapper of src/src/apiModel.js.          *)
(***************************************************************************)
EXTENDS Integers, Sequences, FiniteSets, Bags

(***************************************************************************)
(* Bounds of the model.                                                    *)
(***************************************************************************)
MaxTotal == 10
MaxNeighbors == 3
Slack == 2
MaxBuilds == 3
MaxPages == 3
MaxInFlight == 2

(***************************************************************************)
(* JavaScript values.  An absent value (undefined / null / NaN) is the     *)
(* empty tuple and a present value v is <<v>>.  A string is the sequence   *)
(* of its characters; a code point that TLA+ has no escape for is written  *)
(* by its code ("U+00A0").                                                 *)
(***************************************************************************)
Absent == <<>>
Some(v) == <<v>>
IsAbsent(x) == x = <<>>
Val(x) == x[1]

Max(a, b) == IF a >= b THEN a ELSE b
Min(a, b) == IF a <= b THEN a ELSE b

DigitChars == <<"0", "1", "2", "3", "4", "5", "6", "7", "8", "9">>

\* String(p) of an integer: its decimal digits.
RECURSIVE String(_)
String(n) ==
    IF n < 0 THEN <<"-">> \o String(0 - n)
    ELSE IF n < 10 THEN <<DigitChars[n + 1]>>
    ELSE String(n \div 10) \o <<DigitChars[(n % 10) + 1]>>

PrevLabel == <<"P", "r", "e", "v">>
NextLabel == <<"N", "e", "x", "t">>

\* The WhiteSpace and LineTerminator code points, which String.prototype.trim
\* and parseInt strip.
WhiteSpaceChars ==
    {" ", "\t", "\n", "\r", "\f", "U+000B", "U+00A0", "U+FEFF", "U+1680",
     "U+2000", "U+2001", "U+2002", "U+2003", "U+2004", "U+2005", "U+2006",
     "U+2007", "U+2008", "U+2009", "U+200A", "U+2028", "U+2029", "U+202F",
     "U+205F", "U+3000"}

IsSpace(c) == c \in WhiteSpaceChars

RECURSIVE TrimStart(_)
TrimStart(s) ==
    IF s # <<>> /\ IsSpace(Head(s)) THEN TrimStart(Tail(s)) ELSE s

RECURSIVE TrimEnd(_)
TrimEnd(s) ==
    IF s # <<>> /\ IsSpace(s[Len(s)]) THEN TrimEnd(SubSeq(s, 1, Len(s) - 1)) ELSE s

NoTrim(s) == s
trim(s) == TrimEnd(TrimStart(s))

IsDigit(c) == \E d \in 1..10 : DigitChars[d] = c
DigitVal(c) == (CHOOSE d \in 1..10 : DigitChars[d] = c) - 1

\* The letters that are digits in radix 16.
HexLower == <<"a", "b", "c", "d", "e", "f">>
HexUpper == <<"A", "B", "C", "D", "E", "F">>
IsHexLetter(c) == \E d \in 1..6 : HexLower[d] = c \/ HexUpper[d] = c
HexLetterVal(c) == (CHOOSE d \in 1..6 : HexLower[d] = c \/ HexUpper[d] = c) + 9

\* c is a digit of the radix (10 or 16), and its value.
IsDigitIn(c, radix) == IsDigit(c) \/ (radix = 16 /\ IsHexLetter(c))
DigitValIn(c, radix) == IF IsDigit(c) THEN DigitVal(c) ELSE HexLetterVal(c)

\* The value of the leading digits of s, after acc; Absent (NaN) when s has
\* no leading digit and none was read.
RECURSIVE ParseDigits(_, _, _, _)
ParseDigits(s, acc, any, radix) ==
    IF s # <<>> /\ IsDigitIn(Head(s), radix)
    THEN ParseDigits(Tail(s), acc * radix + DigitValIn(Head(s), radix), TRUE, radix)
    ELSE IF any THEN Some(acc) ELSE Absent

\* parseInt(s, radix), radix being 10, 16 or left out (Absent): leading
\* whitespace, an optional sign, a 0x / 0X prefix when the radix is left out
\* or 16 (the digits are then read in radix 16), then digits.
parseInt(s, radix) ==
    LET t == TrimStart(s)
        signed == t # <<>> /\ (Head(t) = "-" \/ Head(t) = "+")
        negative == t # <<>> /\ Head(t) = "-"
        u == IF signed THEN Tail(t) ELSE t
        stripPrefix == IsAbsent(radix) \/ radix = Some(16)
        hex == /\ stripPrefix /\ Len(u) >= 2
               /\ u[1] = "0" /\ (u[2] = "x" \/ u[2] = "X")
        R == IF hex THEN 16 ELSE IF IsAbsent(radix) THEN 10 ELSE Val(radix)
        v == ParseDigits(IF hex THEN SubSeq(u, 3, Len(u)) ELSE u, 0, FALSE, R)
    IN  IF IsAbsent(v) THEN Absent
        ELSE IF negative THEN Some(0 - Val(v)) ELSE v

(***************************************************************************)
(* ResultsUIBuilder.#buildPageList                                         *)
(***************************************************************************)
clampNoLower(n, total) == Min(total, n)
clamp(n, total) == Max(1, Min(total, n))

WindowStartFromOne(current, neighbors) == Max(1, current - neighbors)
WindowStart(current, neighbors) == Max(2, current - neighbors)

WindowEndUnclamped(current, total, neighbors) == current + neighbors
WindowEnd(current, total, neighbors) == Min(total - 1, current + neighbors)

\* if (start > 2) items.push({ type: "ellipsis" })
LeadingEllipsis(start) == start > 2

\* if (end < total - 1) items.push({ type: "ellipsis" })
TrailingEllipsisAtEdge(end, total) == end <= total - 1
TrailingEllipsis(end, total) == end < total - 1

\* for (let p = start; p <= end; p++) items.push({type, page, label, current})
RECURSIVE PushWindow(_, _, _, _)
PushWindow(items, p, end, current) ==
    IF p <= end
    THEN PushWindow(
             Append(items, [type |-> "page", page |-> p, label |-> String(p),
                            current |-> (p = current)]),
             p + 1, end, current)
    ELSE items

buildPageList(current, total, neighbors) ==
    LET i1 == <<[type |-> "page", page |-> clamp(current - 1, total),
                 label |-> PrevLabel, disabled |-> (current <= 1)]>>
        i2 == Append(i1, [type |-> "page", page |-> 1, label |-> String(1),
                          current |-> (current = 1)])
        start == WindowStart(current, neighbors)
        end == WindowEnd(current, total, neighbors)
        i3 == IF LeadingEllipsis(start) THEN Append(i2, [type |-> "ellipsis"]) ELSE i2
        i4 == PushWindow(i3, start, end, current)
        i5 == IF TrailingEllipsis(end, total)
              THEN Append(i4, [type |-> "ellipsis"]) ELSE i4
        i6 == IF total > 1
              THEN Append(i5, [type |-> "page", page |-> total,
                               label |-> String(total),
                               current |-> (current = total)])
              ELSE i5
    IN  Append(i6, [type |-> "page", page |-> clamp(current + 1, total),
                    label |-> NextLabel, disabled |-> (current >= total)])

\* Truthiness of a flag that an item may not carry (it.current, it.disabled).
Flag(it, f) == IF f \in DOMAIN it THEN it[f] ELSE FALSE

(***************************************************************************)
(* CardBuilder (src/unnamed/part_001).  A rating is a number of tenths     *)
(* (45 is 4.5); the other product fields are opaque strings.  A rating     *)
(* that is no finite number is a pair <<type, payload>>: an array          *)
(* <<"array", elements>> whose elements are values in this encoding, a     *)
(* text Number() reads as no number <<"string", text>>, a text Number()    *)
(* reads as a number <<"numstring", tenths>> (the empty text reads as 0),  *)
(* undefined handed over explicitly <<"undefined", "">>, NaN and Infinity. *)
(* An icon path is a text <<"string", path>>.                              *)
(***************************************************************************)
NaN == <<"number", "NaN">>
Infinity == <<"number", "Infinity">>

IsNumber(x) == Len(x) = 1
IsArray(x) == Len(x) = 2 /\ x[1] = "array"

\* Number(x).  Number(null) is 0.  An array is first joined to a text: the
\* empty array reads as 0, an array of one element as that element does
\* (null and undefined as the empty text, 0), a longer one, its text holding
\* a comma, as NaN.
RECURSIVE Number(_)
Number(x) ==
    IF IsAbsent(x) THEN Some(0)
    ELSE IF IsNumber(x) THEN x
    ELSE IF x[1] = "numstring" THEN Some(x[2])
    ELSE IF x[1] = "number" THEN x
    ELSE IF x[1] = "array"
    THEN IF Len(x[2]) = 0 THEN Some(0)
         ELSE IF Len(x[2]) > 1 THEN NaN
         ELSE IF Len(x[2][1]) = 2 /\ x[2][1][1] = "undefined" THEN Some(0)
         ELSE Number(x[2][1])
    ELSE NaN

\* x || fallback, for a string that may be absent or empty.
OrElse(x, fallback) == IF IsAbsent(x) \/ Val(x) = "" THEN fallback ELSE Val(x)

\* x ?? fallback
Coalesce(x, fallback) == IF IsAbsent(x) THEN fallback ELSE Val(x)

(***************************************************************************)
(* The runtime's default locale, which toLocaleString() formats with: the  *)
(* code passes none, so the text is the runtime's.                         *)
(***************************************************************************)
VARIABLE locale

\* A locale, as far as it formats an integer: whether it groups the digits
\* at all, the digits of the lowest group (tok: 2), the digits per group
\* above it (en-IN, hi-IN: 2) and the fewest digits the highest group must
\* have for the grouping to apply (es-ES, pl-PL: 2, so that 1234 stays
\* ungrouped; ee: 3).  The glyphs of a locale, its ten digits, its group
\* separator and its minus sign, are written as the characters
\* "locale 0" .. "locale 9", "locale group", "locale minus".
Locales ==
    {[grouped |-> FALSE, primary |-> 3, higher |-> 3, minimum |-> 1]}
    \cup [grouped : {TRUE}, primary : {2, 3}, higher : {2, 3},
          minimum : {1, 2, 3}]

LocaleDigitChars ==
    <<"locale 0", "locale 1", "locale 2", "locale 3", "locale 4",
      "locale 5", "locale 6", "locale 7", "locale 8", "locale 9">>
GroupSeparator == "locale group"
MinusSign == "locale minus"

\* The digits of n >= 0 in the locale's numbering system.
RECURSIVE LocaleDigits(_)
LocaleDigits(n) ==
    IF n < 10 THEN <<LocaleDigitChars[n + 1]>>
    ELSE LocaleDigits(n \div 10) \o <<LocaleDigitChars[(n % 10) + 1]>>

RECURSIVE Pow10(_)
Pow10(k) == IF k = 0 THEN 1 ELSE 10 * Pow10(k - 1)

PrimaryGroupModulus(loc) == Pow10(loc.primary)
HigherGroupModulus(loc) == Pow10(loc.higher)

\* The least number that is grouped: it has the digits of the lowest group
\* and the minimum above them.
GroupingThreshold(loc) == Pow10(loc.primary + loc.minimum - 1)

\* The digits of r, zero-padded to width w.
PadDigits(r, w) ==
    LET d == LocaleDigits(r)
    IN  [k \in 1..(w - Len(d)) |-> LocaleDigitChars[1]] \o d

\* The digits above the lowest group, grouped.
RECURSIVE GroupHigher(_, _)
GroupHigher(n, loc) ==
    IF n < HigherGroupModulus(loc) THEN LocaleDigits(n)
    ELSE GroupHigher(n \div HigherGroupModulus(loc), loc)
         \o <<GroupSeparator>>
         \o PadDigits(n % HigherGroupModulus(loc), loc.higher)

\* An integer n >= 0 with its digits grouped.
Grouped(n, loc) ==
    IF ~loc.grouped \/ n < GroupingThreshold(loc) THEN LocaleDigits(n)
    ELSE GroupHigher(n \div PrimaryGroupModulus(loc), loc) \o <<GroupSeparator>>
         \o PadDigits(n % PrimaryGroupModulus(loc), loc.primary)

FormatInteger(n, loc) ==
    IF n < 0 THEN <<MinusSign>> \o Grouped(0 - n, loc) ELSE Grouped(n, loc)

\* Number.prototype.toLocaleString() of an integer, in the runtime's locale.
toLocaleString(n) == FormatInteger(n, locale)

FULL == <<"string", "./star.svg">>
HALF == <<"string", "./star-half.svg">>

NewCardBuilder ==
    [imageSrc |-> "", description |-> "", stars |-> <<>>, rating |-> Some(0),
     reviewCount |-> 0, link |-> "#"]

setImage(b, src) == [b EXCEPT !.imageSrc = src]
setDescription(b, desc) == [b EXCEPT !.description = desc]
setLink(b, link) == [b EXCEPT !.link = link]
setRating(b, rating) == [b EXCEPT !.rating = rating]
setReviewCount(b, n) == [b EXCEPT !.reviewCount = n]

\* setStars: an array is taken as the star list; a value that is no finite
\* number clears the stars; a number (tenths) is stored as the rating and
\* gives full stars, then a half star for any non-integer rating below 5.
setStars(b, starArrayOrRating) ==
    IF IsArray(starArrayOrRating)
    THEN [b EXCEPT !.stars = starArrayOrRating[2]]
    ELSE LET rating == Number(starArrayOrRating)
         IN  IF ~IsNumber(rating)
             THEN [b EXCEPT !.stars = <<>>]
             ELSE LET r == Min(50, Max(0, Val(rating)))
                      full == r \div 10
                      hasHalf == r < 50 /\ r # full * 10
                      icons == [k \in 1..full |-> FULL]
                               \o (IF hasHalf THEN <<HALF>> ELSE <<>>)
                  IN  [b EXCEPT !.rating = rating, !.stars = icons]

RatingBlocksShown(b) == ~IsAbsent(b.rating)

\* What a call leaves when it throws a TypeError instead of returning.
TypeError == [threw |-> "TypeError"]
Threw(x) == "threw" \in DOMAIN x

\* starSrc.includes: texts and arrays have the method; a number, null or
\* undefined has none, and the call throws.
HasIncludes(starSrc) ==
    Len(starSrc) = 2 /\ starSrc[1] \in {"string", "numstring", "array"}

\* CardBuilder.build: the card element and its children, in order, or the
\* TypeError of the star loop.
CardBuild(b) ==
    LET img == [tag |-> "img", class |-> "", src |-> b.imageSrc,
                alt |-> <<"product image", b.description>>]
        desc == [tag |-> "p", class |-> "", text |-> b.description]
        score == [tag |-> "div", class |-> "score", stars |-> b.stars,
                  text |-> b.rating]
        reviews == [tag |-> "div", class |-> "reviews",
                    text |-> toLocaleString(b.reviewCount)]
        hr == [tag |-> "hr", class |-> ""]
        link == [tag |-> "a", class |-> "", href |-> b.link, target |-> "_blank"]
    IN  IF /\ RatingBlocksShown(b)
           /\ \E k \in 1..Len(b.stars) : ~HasIncludes(b.stars[k])
        THEN TypeError
        ELSE [tag |-> "div", class |-> "card", asin |-> "",
              children |-> <<img, desc>>
                           \o (IF RatingBlocksShown(b) THEN <<score, reviews>>
                               ELSE <<>>)
                           \o <<hr, link>>]

(***************************************************************************)
(* ResultsUIBuilder (src/unnamed/part_000).  A region is absent (null) or  *)
(* an element with its children and its "hide" class.                      *)
(***************************************************************************)
KeepChildren(el) == el
ClearChildren(el) == [el EXCEPT !.children = <<>>]

Show(el) == [el EXCEPT !.hide = FALSE]

\* Number(x) || fallback, for an integer that may be absent.
NumberOr(x, fallback) == IF IsAbsent(x) \/ Val(x) = 0 THEN fallback ELSE Val(x)

NewResultsUIBuilder ==
    [iconSrc |-> "./shopping-cart.svg", label |-> "Amazon Products",
     keyword |-> <<>>, count |-> 0, page |-> 1, totalPages |-> 1,
     onClick |-> Absent, products |-> <<>>, resultsEl |-> Some("resultsEl")]

setIcon(b, src) == [b EXCEPT !.iconSrc = src]
setLabel(b, text) == [b EXCEPT !.label = text]
setKeyword(b, kw) == [b EXCEPT !.keyword = Coalesce(kw, <<>>)]
setCount(b, n) == [b EXCEPT !.count = NumberOr(n, 0)]
setPage(b, p) == [b EXCEPT !.page = Max(1, NumberOr(p, 1))]
setProducts(b, p) == [b EXCEPT !.products = Coalesce(p, <<>>)]
setTotalPages(b, tp) == [b EXCEPT !.totalPages = Max(1, NumberOr(tp, 1))]
\* el names the element handed over, or is Absent (null).
setResultsEl(b, el) == [b EXCEPT !.resultsEl = el]
onPageClick(b, handler) == [b EXCEPT !.onClick = handler]

\* One product's card, as #renderCards builds and annotates it.  A null
\* entry of products throws at its first property read, and the TypeError of
\* CardBuilder.build passes through.
RenderCard(p) ==
    IF IsAbsent(p) THEN TypeError
    ELSE
    LET b0 == setLink(setDescription(setImage(NewCardBuilder,
                  OrElse(p.image, "./example.jpg")),
                  OrElse(p.title, "Untitled product")),
                  OrElse(p.url, "#"))
        b1 == IF ~IsAbsent(p.rating)
              THEN setStars(setReviewCount(setRating(b0, Number(p.rating)),
                                           Coalesce(p.reviews, 0)),
                            p.rating)
              ELSE setReviewCount(b0, Coalesce(p.reviews, 0))
        el == CardBuild(b1)
        img == el.children[1]
    IN  IF Threw(el) THEN TypeError
        ELSE [el EXCEPT !.asin = OrElse(p.asin, ""),
                        !.children[1] =
                            IF OrElse(p.title, "") # ""
                            THEN [img EXCEPT !.alt = <<Val(p.title)>>]
                            ELSE img]

\* #renderCards: the region as the call leaves it, and whether it threw.  A
\* card that throws ends the call after the region was emptied: nothing is
\* appended and the hide class stays.
renderCards(b, resultsEl) ==
    IF IsAbsent(resultsEl) THEN [el |-> resultsEl, threw |-> FALSE]
    ELSE LET cleared == ClearChildren(Val(resultsEl))
             cards == [k \in 1..Len(b.products) |-> RenderCard(b.products[k])]
         IN  IF \E k \in 1..Len(cards) : Threw(cards[k])
             THEN [el |-> Some(cleared), threw |-> TRUE]
             ELSE [el |-> Some(Show([cleared EXCEPT
                                        !.children = cleared.children \o cards])),
                   threw |-> FALSE]

renderHeader(b, headerEl) ==
    IF IsAbsent(headerEl) THEN headerEl
    ELSE LET supText == <<toLocaleString(b.count),
                          IF b.count = 1 THEN "product" ELSE "products",
                          b.keyword, String(b.page)>>
             p == [tag |-> "p", class |-> "", img |-> b.iconSrc,
                   text |-> b.label, sup |-> supText]
             cleared == ClearChildren(Val(headerEl))
         IN  Some(Show([cleared EXCEPT !.children = Append(cleared.children, p)]))

\* The DOM node of one pagination item.
PageNode(b, it) ==
    IF it.type = "ellipsis"
    THEN [tag |-> "span", class |-> "", text |-> <<"...">>, ariaHidden |-> TRUE]
    ELSE [tag |-> "span", class |-> "",
          dataPage |-> String(it.page),
          text |-> it.label,
          current |-> Flag(it, "current"),
          disabled |-> Flag(it, "disabled"),
          listeners |-> IF ~Flag(it, "disabled") /\ ~IsAbsent(b.onClick)
                        THEN <<Val(b.onClick)>> ELSE <<>>]

renderPagination(b, paginationEl) ==
    IF IsAbsent(paginationEl) THEN paginationEl
    ELSE LET cleared == ClearChildren(Val(paginationEl))
             list == buildPageList(b.page, b.totalPages, 1)
             nodes == [k \in 1..Len(list) |-> PageNode(b, list[k])]
         IN  Some(Show([cleared EXCEPT !.children = cleared.children \o nodes]))

\* build(): header, pagination, then the cards into the element this.resultsEl
\* refers to.  The regions as the call leaves them, and whether it threw
\* instead of returning.
build(b, regions) ==
    LET r == [regions EXCEPT
                 !.headerEl = renderHeader(b, regions.headerEl),
                 !.paginationEl = renderPagination(b, regions.paginationEl)]
    IN  IF IsAbsent(b.resultsEl) THEN [regions |-> r, threw |-> FALSE]
        ELSE LET c == renderCards(b, regions[Val(b.resultsEl)])
             IN  [regions |-> [r EXCEPT ![Val(b.resultsEl)] = c.el],
                  threw |-> c.threw]

(***************************************************************************)
(* State.                                                                  *)
(***************************************************************************)
VARIABLES
    call,          \* SpecPages: the arguments of #buildPageList
    items,         \* SpecPages: the list it returned (<<>> before the call)
    builder,       \* SpecBuild: the configured ResultsUIBuilder
    headerEl,      \* the three rendered regions
    paginationEl,
    resultsEl,
    nbuilds,       \* SpecBuild: build() calls made on this builder
    hist,          \* SpecBuild: the regions before and after the first build()
    scrapingData,  \* main.js: keyword, page, pages, totalPages
    scrapeButton,  \* main.js: the submit button (disabled)
    infoCard,      \* main.js: the .info card (hide class, content)
    inflight,      \* the fetches awaiting their response (a bag of requests)
    tracking,      \* whether a request records scrapingData as its handler found it
    otherEl,       \* an element handed to setResultsEl()
    watching       \* whether one fetch at a time may be followed to its end

vars == <<locale, call, items, builder, headerEl, paginationEl, resultsEl, otherEl,
          nbuilds, hist,
          scrapingData, scrapeButton, infoCard, inflight, tracking, watching>>

pageVars == <<call, items>>
buildVars == <<builder, nbuilds, hist>>
regionVars == <<headerEl, paginationEl, resultsEl, otherEl>>
envVars == <<locale>>
ctlVars == <<scrapingData, scrapeButton, infoCard, inflight, tracking, watching>>

Regions == [headerEl |-> headerEl, paginationEl |-> paginationEl,
            resultsEl |-> resultsEl, otherEl |-> otherEl]

EmptyEl == Some([children |-> <<>>, hide |-> TRUE])
EmptyRegions == [headerEl |-> EmptyEl, paginationEl |-> EmptyEl, resultsEl |-> EmptyEl,
                 otherEl |-> EmptyEl]

\* Values of the variables a specification does not use.
PagesIdle == call = [current |-> 0, total |-> 0, neighbors |-> 0] /\ items = <<>>
BuildIdle ==
    /\ builder = NewResultsUIBuilder
    /\ nbuilds = 0
    /\ hist = [prior |-> EmptyRegions, first |-> EmptyRegions]
RegionsIdle ==
    /\ headerEl = EmptyEl /\ paginationEl = EmptyEl /\ resultsEl = EmptyEl
    /\ otherEl = EmptyEl
\* A runtime locale for the specifications that format no number above 99:
\* below a hundred no locale groups, and every locale gives the number's
\* digits.
LocaleIdle ==
    locale = [grouped |-> TRUE, primary |-> 3, higher |-> 3, minimum |-> 1]
InitScrapingData ==
    [keyword |-> <<>>, page |-> 1, pages |-> Some(1), totalPages |-> 1]
CtlIdle ==
    /\ scrapingData = InitScrapingData
    /\ scrapeButton = [disabled |-> FALSE]
    /\ infoCard = [hide |-> FALSE, content |-> "intro"]
    /\ inflight = EmptyBag
    /\ tracking = FALSE
    /\ watching = FALSE

(***************************************************************************)
(* SpecPages: #buildPageList applied to every (current, total, neighbors)  *)
(* within the bounds, current also outside [1, total].                     *)
(***************************************************************************)
InitPages ==
    /\ call \in [current : (1 - Slack)..(MaxTotal + Slack),
                 total : 1..MaxTotal,
                 neighbors : 0..MaxNeighbors]
    /\ items = <<>>
    /\ BuildIdle /\ RegionsIdle /\ CtlIdle /\ LocaleIdle

CallBuildPageList ==
    /\ items = <<>>
    /\ items' = buildPageList(call.current, call.total, call.neighbors)
    /\ UNCHANGED <<envVars, call, buildVars, regionVars, ctlVars>>

NextPages == CallBuildPageList

SpecPages == InitPages /\ [][NextPages]_vars

(***************************************************************************)
(* SpecBuild: a ResultsUIBuilder configured through its setters, whose     *)
(* build() is called repeatedly on regions that held anything before.      *)
(***************************************************************************)
ProductAbsent ==
    [title |-> Absent, image |-> Absent, url |-> Absent, asin |-> Absent,
     rating |-> Absent, reviews |-> Absent]
ProductUnrated ==
    [title |-> Some("Desk lamp"), image |-> Some("lamp.jpg"), url |-> Some("/dp/B02"),
     asin |-> Some("B02"), rating |-> Absent, reviews |-> Some(7)]
ProductZero ==
    [title |-> Some("Mouse"), image |-> Some("mouse.jpg"), url |-> Some("/dp/B01"),
     asin |-> Some("B01"), rating |-> Some(0), reviews |-> Some(0)]
ProductRated ==
    [title |-> Some(""), image |-> Some("kb.jpg"), url |-> Absent,
     asin |-> Some("B03"), rating |-> Some(45), reviews |-> Some(1500)]

\* Ratings that are no number: a text, an array of icon paths and an array
\* of one numeric text.
ProductText ==
    [title |-> Some("Cable"), image |-> Absent, url |-> Absent,
     asin |-> Some("B04"), rating |-> <<"string", "abc">>, reviews |-> Some(3)]
ProductStars ==
    [title |-> Some("Hub"), image |-> Absent, url |-> Absent,
     asin |-> Some("B05"),
     rating |-> <<"array", <<<<"string", "a.svg">>, <<"string", "b.svg">>>>>>,
     reviews |-> Absent]
\* rating: ["5"]
ProductOneText ==
    [title |-> Some("Dock"), image |-> Absent, url |-> Absent,
     asin |-> Some("B06"), rating |-> <<"array", <<<<"numstring", 50>>>>>>,
     reviews |-> Some(1)]

\* rating: [5], a star array whose element is no text.
ProductNumberStar ==
    [title |-> Some("Stand"), image |-> Absent, url |-> Absent,
     asin |-> Some("B07"), rating |-> <<"array", <<Some(50)>>>>,
     reviews |-> Some(2)]

ProductLists ==
    {<<>>, <<ProductAbsent>>, <<ProductZero, ProductRated>>,
     <<ProductUnrated, ProductZero>>,
     <<ProductText, ProductStars, ProductOneText>>,
     <<ProductNumberStar>>}

Handler == "changePage"

\* The optional setters main.js leaves alone: setIcon and setLabel (called or
\* not), setResultsEl (called with another element, or not).
HeaderOverrides ==
    {Absent, Some([icon |-> "./deals.svg", label |-> "Deals"])}

\* What main.js hands to the setters.
RawInputs ==
    [keyword : {Absent, Some(<<"a">>)},
     page : {Absent} \cup {Some(n) : n \in 0..2} \cup {Some(MaxTotal)},
     totalPages : {Absent} \cup {Some(n) : n \in 0..2} \cup {Some(MaxTotal)},
     count : {Absent, Some(0), Some(1), Some(1234)},
     products : {Absent} \cup {Some(l) : l \in ProductLists},
     handler : {Absent, Some(Handler)},
     header : HeaderOverrides,
     resultsEl : {Absent, Some("otherEl")}]

ConfigureOptional(b, in) ==
    LET b1 == IF IsAbsent(in.header) THEN b
              ELSE setLabel(setIcon(b, Val(in.header).icon), Val(in.header).label)
    IN  IF IsAbsent(in.resultsEl) THEN b1 ELSE setResultsEl(b1, in.resultsEl)

Configure(in) ==
    ConfigureOptional(
        onPageClick(setProducts(setTotalPages(setCount(setPage(setKeyword(
            NewResultsUIBuilder, in.keyword), in.page), in.count), in.totalPages),
            in.products), in.handler),
        in)

\* What the regions may hold before a build: nothing, an earlier render, or
\* foreign nodes (with no results region at all).
StaleBuilder ==
    Configure([keyword |-> Some(<<"o", "l", "d">>), page |-> Some(2),
               totalPages |-> Some(3), count |-> Some(2),
               products |-> Some(<<ProductZero, ProductRated>>),
               handler |-> Some(Handler),
               header |-> Absent, resultsEl |-> Absent])
ForeignEl == Some([children |-> <<[tag |-> "div", class |-> "foreign"]>>, hide |-> FALSE])

PriorRegions ==
    {EmptyRegions,
     build(StaleBuilder, EmptyRegions).regions,
     [headerEl |-> ForeignEl, paginationEl |-> ForeignEl, resultsEl |-> Absent,
      otherEl |-> EmptyEl]}

InitBuild ==
    /\ PagesIdle /\ CtlIdle
    /\ locale \in Locales
    /\ \E in \in RawInputs : builder = Configure(in)
    /\ \E r \in PriorRegions :
          /\ headerEl = r.headerEl
          /\ paginationEl = r.paginationEl
          /\ resultsEl = r.resultsEl
          /\ otherEl = r.otherEl
          /\ hist = [prior |-> r, first |-> r]
    /\ nbuilds = 0

BuildCall ==
    /\ nbuilds < MaxBuilds
    /\ LET r == build(builder, Regions).regions
       IN  /\ headerEl' = r.headerEl
           /\ paginationEl' = r.paginationEl
           /\ resultsEl' = r.resultsEl
           /\ otherEl' = r.otherEl
           /\ hist' = IF nbuilds = 0 THEN [hist EXCEPT !.first = r] ELSE hist
    /\ nbuilds' = nbuilds + 1
    /\ UNCHANGED <<envVars, pageVars, builder, ctlVars>>

NextBuild == BuildCall

SpecBuild == InitBuild /\ [][NextBuild]_vars

(***************************************************************************)
(* Claims about #buildPageList (checked under SpecPages).                  *)
(***************************************************************************)
Called == items # <<>>
InRange == call.current \in 1..call.total

\* The numbered page items: every item of type page but Prev (first) and
\* Next (last).
NumberedIdx == {i \in 2..(Len(items) - 1) : items[i].type = "page"}

\* C1: for total >= 1, current in [1,total] and neighbors >= 0, the numbered
\* page items hold exactly one item with page 1, exactly one with page total
\* when total > 1, and no page number twice.
C1_EdgePagesOnce ==
    (Called /\ InRange) =>
        /\ Cardinality({i \in NumberedIdx : items[i].page = 1}) = 1
        /\ (call.total > 1 =>
               Cardinality({i \in NumberedIdx : items[i].page = call.total}) = 1)
        /\ \A i, j \in NumberedIdx : i # j => items[i].page # items[j].page

\* The window would cover the whole range and both edges: neighbors is
\* larger than total.
C1_Witness ==
    /\ Called /\ InRange
    /\ call.total > 1
    /\ call.neighbors > call.total
    /\ Cardinality(NumberedIdx) = call.total

\* The list the claim describes, written position by position.
ExpectedNumbered(p) ==
    [type |-> "page", page |-> p, label |-> String(p), current |-> (p = call.current)]

ExpectedList ==
    LET start == IF call.current - call.neighbors > 2
                 THEN call.current - call.neighbors ELSE 2
        end == IF call.current + call.neighbors < call.total - 1
               THEN call.current + call.neighbors ELSE call.total - 1
        n == IF end >= start THEN end - start + 1 ELSE 0
    IN  <<[type |-> "page", page |-> clamp(call.current - 1, call.total),
           label |-> PrevLabel, disabled |-> (call.current <= 1)]>>
        \o <<ExpectedNumbered(1)>>
        \o (IF start > 2 THEN <<[type |-> "ellipsis"]>> ELSE <<>>)
        \o [k \in 1..n |-> ExpectedNumbered(start + k - 1)]
        \o (IF end < call.total - 1 THEN <<[type |-> "ellipsis"]>> ELSE <<>>)
        \o (IF call.total > 1 THEN <<ExpectedNumbered(call.total)>> ELSE <<>>)
        \o <<[type |-> "page", page |-> clamp(call.current + 1, call.total),
              label |-> NextLabel, disabled |-> (call.current >= call.total)]>>

\* The three lists the claim spells out: kinds and pages, then labels.
Shape(s) == [k \in 1..Len(s) |->
                IF s[k].type = "ellipsis" THEN 0 ELSE s[k].page]
Labels(s) == [k \in 1..Len(s) |->
                IF s[k].type = "ellipsis" THEN <<>> ELSE s[k].label]
CurrentIdx(s) == {k \in 1..Len(s) : Flag(s[k], "current")}

\* C2: for total >= 1 and current in [1,total] the list is exactly Prev,
\* page 1, an ellipsis iff start > 2, the pages start..end increasing, an
\* ellipsis iff end < total-1, page total iff total > 1, Next; the current
\* flag is set on exactly the numbered item whose page is current; and
\* (1,1), (5,10,1), (1,10,1) give the three lists of the claim.
C2_ExactSequence ==
    (Called /\ InRange) =>
        /\ items = ExpectedList
        /\ \A k \in 1..Len(items) :
              Flag(items[k], "current") <=>
                  (k \in NumberedIdx /\ items[k].page = call.current)
        /\ Cardinality(CurrentIdx(items)) = 1
        /\ (call.current = 1 /\ call.total = 1) =>
              /\ Shape(items) = <<1, 1, 1>>
              /\ Labels(items) = <<PrevLabel, <<"1">>, NextLabel>>
        /\ (call.current = 5 /\ call.total = 10 /\ call.neighbors = 1) =>
              /\ Shape(items) = <<4, 1, 0, 4, 5, 6, 0, 10, 6>>
              /\ Labels(items) = <<PrevLabel, <<"1">>, <<>>, <<"4">>, <<"5">>,
                                   <<"6">>, <<>>, <<"1", "0">>, NextLabel>>
              /\ CurrentIdx(items) = {5}
        /\ (call.current = 1 /\ call.total = 10 /\ call.neighbors = 1) =>
              /\ Shape(items) = <<1, 1, 2, 0, 10, 2>>
              /\ Labels(items) = <<PrevLabel, <<"1">>, <<"2">>, <<>>,
                                   <<"1", "0">>, NextLabel>>
              /\ CurrentIdx(items) = {2}

C2_Witness ==
    /\ Called
    /\ call = [current |-> 5, total |-> 10, neighbors |-> 1]
    /\ Len(items) = 9

\* C3: for total >= 1 and every integer current, also outside [1,total],
\* Prev has page clamp(current-1, 1, total) and is disabled iff current <= 1,
\* Next has page clamp(current+1, 1, total) and is disabled iff
\* current >= total, and every page item has its page in [1,total].
C3_ClampedTargets ==
    Called =>
        LET prev == items[1]
            next == items[Len(items)]
            lo == call.current - 1
            hi == call.current + 1
        IN  /\ prev.label = PrevLabel /\ next.label = NextLabel
            /\ prev.page = (IF lo < 1 THEN 1
                            ELSE IF lo > call.total THEN call.total ELSE lo)
            /\ prev.disabled <=> (call.current <= 1)
            /\ next.page = (IF hi < 1 THEN 1
                            ELSE IF hi > call.total THEN call.total ELSE hi)
            /\ next.disabled <=> (call.current >= call.total)
            /\ \A k \in 1..Len(items) :
                  items[k].type = "page" => items[k].page \in 1..call.total

\* current lies outside [1,total] on either side.
C3_Witness ==
    /\ Called
    /\ call.current > call.total + 1
    /\ call.total > 2
    /\ items[1].page = call.total
    /\ ~items[1].disabled

(***************************************************************************)
(* Claims about the composer and the cards (checked under SpecBuild).      *)
(***************************************************************************)
HasBlock(card, cls) == \E k \in 1..Len(card.children) : card.children[k].class = cls

\* The element the builder renders its cards into.
GridEl == IF IsAbsent(builder.resultsEl) THEN Absent
          ELSE Regions[Val(builder.resultsEl)]

\* C4: a product whose rating is absent is rendered as a card with no
\* rating/star block and no review block, and a product with rating 0 is
\* rendered with both.
C4_AbsentRatingNoBlocks ==
    (nbuilds >= 1 /\ ~IsAbsent(GridEl)) =>
        \A k \in 1..Len(builder.products) :
            LET p == builder.products[k]
                card == Val(GridEl).children[k]
            IN  /\ IsAbsent(p.rating) =>
                       (~HasBlock(card, "score") /\ ~HasBlock(card, "reviews"))
                /\ p.rating = Some(0) =>
                       (HasBlock(card, "score") /\ HasBlock(card, "reviews"))

\* The page item nodes of the pagination region.
PageItemNodes ==
    IF IsAbsent(paginationEl) THEN {}
    ELSE {Val(paginationEl).children[k] : k \in 1..Len(Val(paginationEl).children)}

\* C10: build() called again with the same input leaves the header, the
\* pagination and the grid as the first call left them, whatever they held
\* before, with exactly one click trigger on each non-disabled page item
\* (none on a disabled one).
C10_BuildIdempotent ==
    nbuilds >= 1 =>
        /\ Regions = hist.first
        /\ \A n \in PageItemNodes :
              "listeners" \in DOMAIN n =>
                  Len(n.listeners) =
                      (IF ~n.disabled /\ ~IsAbsent(builder.onClick) THEN 1 ELSE 0)

\* A second build over regions that held an earlier render, with clickable
\* page items and cards.
C10_Witness ==
    /\ nbuilds = 2
    /\ hist.prior = build(StaleBuilder, EmptyRegions).regions
    /\ Len(Val(resultsEl).children) = 2
    /\ \E n \in PageItemNodes : "listeners" \in DOMAIN n /\ Len(n.listeners) = 1
    /\ \E n \in PageItemNodes : "listeners" \in DOMAIN n /\ n.disabled

(***************************************************************************)
(* The page controller (src/src/main.js) over the fetch wrapper            *)
(* (src/src/apiModel.js).  A handler runs to its await; the awaited fetch  *)
(* is a request in flight that any later step resolves or fails.           *)
(***************************************************************************)
KeywordInputs == {<<>>, <<" ", "\t">>, <<"\n", "a", " ">>}
SelectValues == {<<"2">>}

\* The API answers a query with that page's products: the product of the
\* model carries the query it answers in its asin.
AsinTable ==
    [a |-> <<"a1", "a2", "a3", "a4", "a5", "a6">>,
     b |-> <<"b1", "b2", "b3", "b4", "b5", "b6">>]
AsinFor(keyword, page) ==
    IF keyword = <<"a">> THEN AsinTable.a[page] ELSE AsinTable.b[page]
ProductFor(keyword, page) ==
    [title |-> Some("Item"), image |-> Absent, url |-> Absent,
     asin |-> Some(AsinFor(keyword, page)), rating |-> Absent, reviews |-> Absent]

\* A product whose rating is the array [5].
StarredFor(keyword, page) ==
    [ProductFor(keyword, page) EXCEPT !.rating = <<"array", <<Some(50)>>>>]

\* The response bodies of the API to request r: totalPages may be absent,
\* and the page's product may come with a rating array or as null.
Responses(r) ==
    [count : {Some(1)},
     totalPages : {Absent} \cup {Some(n) : n \in 1..MaxPages},
     products : {Some(<<ProductFor(r.keyword, r.page)>>)}]
    \cup [count : {Some(1)},
          totalPages : {Some(MaxPages)},
          products : {Some(<<StarredFor(r.keyword, r.page)>>), Some(<<Absent>>)}]

\* The request a handler awaits: what scrape() was called with, by which
\* handler, and scrapingData as the handler found it.
Request(kind, sd, before, watched) ==
    [kind |-> kind, keyword |-> sd.keyword, page |-> sd.page, pages |-> sd.pages,
     before |-> IF tracking THEN Some(before) ELSE Absent,
     watched |-> watched]

InFlight == BagToSet(inflight)

\* scrape() rejects at once when the keyword is blank.
ScrapeRejects(keyword) == keyword = <<>> \/ trim(keyword) = <<>>

RetryNotice == [hide |-> FALSE, content |-> "retry"]
ValidationNotice == [hide |-> FALSE, content |-> "validation"]

\* A new fetch may become the followed one when no followed fetch is pending.
WatchChoices ==
    IF watching /\ ~(\E r \in InFlight : r.watched) THEN BOOLEAN ELSE {FALSE}

\* try { scrapeButton.disabled = true; await scrape(...) }: the fetch goes
\* in flight, or scrape() throws and catch/finally run.
AwaitScrape(kind, sd, before) ==
    IF ScrapeRejects(sd.keyword)
    THEN /\ infoCard' = RetryNotice
         /\ scrapeButton' = [disabled |-> FALSE]
         /\ UNCHANGED inflight
    ELSE /\ BagCardinality(inflight) < MaxInFlight
         /\ scrapeButton' = [disabled |-> TRUE]
         /\ \E w \in WatchChoices :
                inflight' = inflight (+) SetToBag({Request(kind, sd, before, w)})
         /\ UNCHANGED infoCard

\* scrapeAmazon(), to its return or its await.
scrapeAmazon(raw, sel) ==
    LET pagesVal == parseInt(sel, Some(10))
        keyword == trim(raw)
    IN  IF keyword = <<>>
        THEN /\ infoCard' = ValidationNotice
             /\ UNCHANGED <<scrapingData, scrapeButton, inflight, tracking, watching>>
             /\ UNCHANGED <<envVars, pageVars, buildVars, regionVars>>
        ELSE LET sd == [scrapingData EXCEPT !.keyword = keyword, !.page = 1,
                                            !.pages = pagesVal]
             IN  /\ scrapingData' = sd
                 /\ AwaitScrape("submit", sd, scrapingData)
                 /\ UNCHANGED <<tracking, watching>>
                 /\ UNCHANGED <<envVars, pageVars, buildVars, regionVars>>

\* The page changePage() adopts for the clicked label; Absent when it returns
\* without fetching.
ChangePageTarget(label, sd) ==
    IF label = PrevLabel \/ label = NextLabel
    THEN IF label = PrevLabel /\ sd.page > 1 THEN Some(sd.page - 1)
         ELSE IF label = NextLabel /\ sd.page < sd.totalPages THEN Some(sd.page + 1)
         ELSE Absent
    ELSE LET clickedIndex == parseInt(label, Absent)
         IN  IF IsAbsent(clickedIndex) \/ Val(clickedIndex) = sd.page
                \/ Val(clickedIndex) = 0
             THEN Absent
             ELSE clickedIndex

\* changePage(e), e.target.innerText being label, to its return or its await.
changePage(label) ==
    LET target == ChangePageTarget(label, scrapingData)
    IN  IF IsAbsent(target)
        THEN UNCHANGED vars
        ELSE LET sd == [scrapingData EXCEPT !.page = Val(target)]
             IN  /\ scrapingData' = sd
                 /\ AwaitScrape("nav", sd, scrapingData)
                 /\ UNCHANGED <<tracking, watching>>
                 /\ UNCHANGED <<envVars, pageVars, buildVars, regionVars>>

\* updateResultsUI(results): a new builder configured from scrapingData as it
\* is now and from the response, then build(); the regions as the call
\* leaves them, and whether it threw.
updateResultsUI(results, sd) ==
    build(Configure([keyword |-> Some(sd.keyword),
                     page |-> Some(sd.page),
                     count |-> Some(Coalesce(results.count, 0)),
                     totalPages |-> Some(Coalesce(results.totalPages, sd.totalPages)),
                     products |-> Some(Coalesce(results.products, <<>>)),
                     handler |-> Some(Handler),
                     header |-> Absent, resultsEl |-> Absent]),
          Regions)

\* The regions after the call of updateResultsUI that left out.
Render(out) ==
    /\ headerEl' = out.regions.headerEl
    /\ paginationEl' = out.regions.paginationEl
    /\ resultsEl' = out.regions.resultsEl
    /\ otherEl' = out.regions.otherEl

\* The await of request r returns results: the rest of the try block, the
\* catch block when updateResultsUI throws, then finally.
Resolve(r, results) ==
    /\ r \in InFlight
    /\ inflight' = inflight (-) SetToBag({r})
    /\ LET sd == IF r.kind = "submit"
                 THEN [scrapingData EXCEPT
                          !.totalPages = Coalesce(results.totalPages, 1)]
                 ELSE scrapingData
           out == updateResultsUI(results, sd)
       IN  /\ scrapingData' = sd
           /\ Render(out)
           /\ infoCard' = IF out.threw THEN RetryNotice
                          ELSE IF r.kind = "submit"
                          THEN [infoCard EXCEPT !.hide = TRUE]
                          ELSE infoCard
    /\ UNCHANGED <<tracking, watching>>
    /\ scrapeButton' = [disabled |-> FALSE]
    /\ UNCHANGED <<envVars, pageVars, buildVars>>

\* Reject without its finally block.
RejectNoFinally(r) ==
    /\ r \in InFlight
    /\ inflight' = inflight (-) SetToBag({r})
    /\ infoCard' = RetryNotice
    /\ UNCHANGED <<scrapingData, scrapeButton, tracking, watching>>
    /\ UNCHANGED <<envVars, pageVars, buildVars, regionVars>>

\* The await of request r throws (timeout abort, network error, non-2xx
\* status): catch, then finally.
Reject(r) ==
    /\ r \in InFlight
    /\ inflight' = inflight (-) SetToBag({r})
    /\ infoCard' = RetryNotice
    /\ scrapeButton' = [disabled |-> FALSE]
    /\ UNCHANGED <<scrapingData, tracking, watching>>
    /\ UNCHANGED <<envVars, pageVars, buildVars, regionVars>>

\* The rendered pagination nodes that carry a click listener.
PaginationNodes == Val(paginationEl).children
Clickable == {k \in 1..Len(PaginationNodes) :
                 /\ "listeners" \in DOMAIN PaginationNodes[k]
                 /\ PaginationNodes[k].listeners # <<>>}

Init ==
    /\ PagesIdle /\ BuildIdle /\ RegionsIdle /\ LocaleIdle
    /\ scrapingData = InitScrapingData
    /\ scrapeButton = [disabled |-> FALSE]
    /\ infoCard = [hide |-> FALSE, content |-> "intro"]
    /\ inflight = EmptyBag
    /\ tracking = FALSE
    /\ watching = FALSE

\* A click on the submit button: a disabled button fires no click.
SubmitClick ==
    /\ ~scrapeButton.disabled
    /\ \E raw \in KeywordInputs, sel \in SelectValues : scrapeAmazon(raw, sel)

\* Enter in the keyword input.
SubmitEnter ==
    \E raw \in KeywordInputs, sel \in SelectValues : scrapeAmazon(raw, sel)

ClickPageItem ==
    \E k \in Clickable : changePage(PaginationNodes[k].text)

FetchSuccess ==
    \E r \in InFlight : \E results \in Responses(r) : Resolve(r, results)

FetchFailure ==
    \E r \in InFlight : Reject(r)

Next == SubmitClick \/ SubmitEnter \/ ClickPageItem \/ FetchSuccess \/ FetchFailure

Spec == Init /\ [][Next]_vars

\* The same controller, each request recording scrapingData as its handler
\* found it.
InitHist ==
    /\ PagesIdle /\ BuildIdle /\ RegionsIdle /\ LocaleIdle
    /\ scrapingData = InitScrapingData
    /\ scrapeButton = [disabled |-> FALSE]
    /\ infoCard = [hide |-> FALSE, content |-> "intro"]
    /\ inflight = EmptyBag
    /\ tracking = TRUE
    /\ watching = FALSE

SpecHist == InitHist /\ [][Next]_vars

(***************************************************************************)
(* Claims about the page controller.                                       *)
(***************************************************************************)
\* The page scrapingData holds once changePage() has run for label.
PageAfterClick(label) ==
    LET t == ChangePageTarget(label, scrapingData)
    IN  IF IsAbsent(t) THEN scrapingData.page ELSE Val(t)

\* C5: in every reachable state, activating a rendered non-disabled page item
\* whose target page is t takes the controller to page t
\* (scrapingData.page becomes t, the page it fetches); a disabled item has no
\* click trigger.
C5_ClickGoesToTarget ==
    \A k \in 1..Len(PaginationNodes) :
        LET n == PaginationNodes[k]
        IN  "listeners" \in DOMAIN n =>
                IF n.disabled
                THEN n.listeners = <<>>
                ELSE /\ n.listeners = <<Handler>>
                     /\ PageAfterClick(n.text) = Val(parseInt(n.dataPage, Some(10)))

\* C6: when the fetch of a submit fails, scrapingData (keyword, page, pages,
\* totalPages) is what it was immediately before that submit, and the retry
\* notice is shown.
C6_FailedSubmitRestoresState ==
    [][\A r \in InFlight :
          (r.kind = "submit" /\ Reject(r)) =>
              (scrapingData' = Val(r.before) /\ infoCard' = RetryNotice)]_vars

\* The total the pagination control shows: the last numbered item.
RenderedTotal(el) ==
    LET nodes == Val(el).children
    IN  Val(parseInt(nodes[Len(nodes) - 1].text, Some(10)))

\* C7: after every successful fetch, of a submit or of a navigation click,
\* scrapingData.totalPages is the totalPages of that response (1 when it has
\* none) and is the total the pagination control was rendered with.
C7_TotalPagesFollowsResponse ==
    [][\A r \in InFlight : \A results \in Responses(r) :
          Resolve(r, results) =>
              /\ scrapingData'.totalPages = Coalesce(results.totalPages, 1)
              /\ RenderedTotal(paginationEl') = scrapingData'.totalPages]_vars

SubmitsInFlight == {r \in InFlight : r.kind = "submit"}

\* C8: while a fetch issued by a submit is in flight the submit button is
\* disabled, and no second fetch of a submit is in flight with it.
C8_OneSubmitInFlight ==
    SubmitsInFlight # {} =>
        /\ scrapeButton.disabled
        /\ \A r \in SubmitsInFlight : CopiesIn(r, inflight) = 1
        /\ Cardinality(SubmitsInFlight) = 1

Blank(raw) == \A i \in 1..Len(raw) : raw[i] \in WhiteSpaceChars

\* C9: a submit whose keyword trims to the empty string issues no fetch,
\* leaves scrapingData unchanged, does not touch the submit button and shows
\* the validation message.
C9_BlankSubmitRejected ==
    [][\A raw \in KeywordInputs, sel \in SelectValues :
          (Blank(raw) /\ scrapeAmazon(raw, sel)) =>
              /\ inflight' = inflight
              /\ scrapingData' = scrapingData
              /\ scrapeButton' = scrapeButton
              /\ infoCard' = ValidationNotice]_vars

\* A blank submit made after a search: the validation message shows while
\* page 2 is being fetched and the button is disabled.
C9_Witness ==
    /\ infoCard = ValidationNotice
    /\ scrapingData.keyword = <<"a">>
    /\ scrapingData.page = 2
    /\ inflight # EmptyBag
    /\ scrapeButton.disabled

(***************************************************************************)
(* SpecLive: the controller with one fetch at a time followed to its end.  *)
(* scrape() arms a timer that aborts its fetch after 8000 ms, so a fetch   *)
(* that stays pending is rejected: the abort of the followed fetch is      *)
(* weakly fair.  A success or an earlier failure disables the abort.       *)
(***************************************************************************)
InitLive ==
    /\ PagesIdle /\ BuildIdle /\ RegionsIdle /\ LocaleIdle
    /\ scrapingData = InitScrapingData
    /\ scrapeButton = [disabled |-> FALSE]
    /\ infoCard = [hide |-> FALSE, content |-> "intro"]
    /\ inflight = EmptyBag
    /\ tracking = FALSE
    /\ watching = TRUE

\* The timer of the followed fetch fires: ctrl.abort() rejects the await.
AbortWatched == \E r \in InFlight : r.watched /\ Reject(r)

SpecLive == InitLive /\ [][Next]_vars /\ WF_vars(AbortWatched)

WatchedPending == \E r \in InFlight : r.watched

\* C11: every issued fetch eventually resolves (the followed fetch, which is
\* any fetch, leaves the pending set), every failure shows the retry notice
\* and re-enables the submit button at once, and whenever no fetch is in
\* flight the submit button is enabled.
C11_FetchesSettleAndButtonReturns ==
    /\ WatchedPending ~> ~WatchedPending
    /\ [](inflight = EmptyBag => ~scrapeButton.disabled)
    /\ [][\A r \in InFlight :
             Reject(r) => (infoCard' = RetryNotice /\ ~scrapeButton'.disabled)]_vars

\* A fetch has failed (notice shown, button enabled again) while the followed
\* fetch, issued before it failed, is still pending.
C11_Witness ==
    /\ WatchedPending
    /\ infoCard = RetryNotice
    /\ ~scrapeButton.disabled
    /\ BagCardinality(inflight) = 1

\* The asins of the cards in a grid region, in order.
ShownAsins(el) ==
    LET cards == Val(el).children
    IN  [k \in 1..Len(cards) |-> cards[k].asin]

\* The asins of the products of a response (a null entry has none).
ResponseAsins(results) ==
    LET ps == Coalesce(results.products, <<>>)
    IN  [k \in 1..Len(ps) |->
            IF IsAbsent(ps[k]) THEN "" ELSE OrElse(ps[k].asin, "")]

\* C12: when two fetches are in flight at once and both succeed, each of
\* them renders when it completes, and the products shown once both have
\* completed are those of the response that completed last, whichever
\* request was issued first: a fetch that succeeds while another is in
\* flight leaves the grid shown with the products of its response.
C12_LastCompletionShown ==
    [][\A r \in InFlight : \A results \in Responses(r) :
          (BagCardinality(inflight) >= 2 /\ Resolve(r, results)) =>
              /\ ~Val(resultsEl').hide
              /\ ShownAsins(resultsEl') = ResponseAsins(results)]_vars

\* C13: in every reachable state of the controller, under any interleaving of
\* submits, clicks on the rendered page items and fetch completions,
\* 1 <= scrapingData.page <= scrapingData.totalPages.
C13_PageWithinTotal ==
    /\ 1 <= scrapingData.page
    /\ scrapingData.page <= scrapingData.totalPages

\* The keyword and the page number the header shows.
HeaderKeyword == Val(headerEl).children[1].sup[3]
HeaderPage == Val(parseInt(Val(headerEl).children[1].sup[4], Some(10)))

\* The pages of the pagination items marked current.
CurrentPages ==
    {Val(parseInt(n.dataPage, Some(10))) : n \in {m \in PageItemNodes :
                                          "current" \in DOMAIN m /\ m.current}}

\* C14: after every render, the keyword and page number shown in the header
\* and the page marked current in the pagination control are the keyword and
\* page of the request whose response supplied the displayed products.
\* (A grid that displays no product has none to match.)
C14_HeaderMatchesProducts ==
    (~Val(resultsEl).hide /\ Val(resultsEl).children # <<>>) =>
        /\ ShownAsins(resultsEl) = <<AsinFor(HeaderKeyword, HeaderPage)>>
        /\ \A p \in CurrentPages :
               ShownAsins(resultsEl) = <<AsinFor(HeaderKeyword, p)>>

\* The list without Prev and Next.
Inner == SubSeq(items, 2, Len(items) - 1)
InnerNumbered == {i \in 1..Len(Inner) : Inner[i].type = "page"}
InnerEllipses == {i \in 1..Len(Inner) : Inner[i].type = "ellipsis"}

\* i and j are numbered items with no numbered item between them.
Consecutive(i, j) ==
    /\ i \in InnerNumbered /\ j \in InnerNumbered /\ i < j
    /\ \A k \in InnerNumbered : ~(i < k /\ k < j)

\* C15: for total >= 1, current in [1,total] and neighbors >= 0, the numbered
\* items (Prev and Next excluded) are strictly increasing in page number, an
\* ellipsis lies between two consecutive numbered items exactly when their
\* pages differ by more than 1, no two ellipses are adjacent, and every
\* ellipsis stands for at least one hidden page.
C15_EllipsesMarkGaps ==
    (Called /\ InRange) =>
        /\ \A i, j \in InnerNumbered : i < j => Inner[i].page < Inner[j].page
        /\ \A i, j \in InnerNumbered :
              Consecutive(i, j) =>
                  ((\E k \in InnerEllipses : i < k /\ k < j)
                       <=> Inner[j].page - Inner[i].page > 1)
        /\ \A k \in InnerEllipses : (k + 1) \notin InnerEllipses
        /\ \A k \in InnerEllipses :
              /\ (k - 1) \in InnerNumbered /\ (k + 1) \in InnerNumbered
              /\ Inner[k + 1].page - Inner[k - 1].page > 1

\* An ellipsis on each side of the window, the leading one hiding only
\* page 2, the window ending two pages before the last.
C15_Witness ==
    /\ Called /\ InRange
    /\ call.current - call.neighbors = 3
    /\ call.current + call.neighbors = call.total - 2
    /\ Cardinality(InnerEllipses) = 2

====
